---- MODULE Spec2Model ----
(***************************************************************************)
(* Model of the Bethesda Softworks Archive parser (src/src/lib.rs):        *)
(* the TES4 path hash (tes4_hash, str_hash), the hash-indexed map          *)
(* (BSAHashMap) and the version-104 decoder (BSAParser::v104 with its      *)
(* string readers).                                                        *)
(*                                                                         *)
(* Numbers.  A u32 is a sequence of 4 bytes and a u64 a sequence of 8      *)
(* bytes, least significant byte first, so that 32- and 64-bit arithmetic  *)
(* keeps its width: every addition and multiplication is carried out byte  *)
(* by byte and the carry out of the top byte is the overflow.              *)
(* Strings (&str, CString) are sequences of byte values.                   *)
(*                                                                         *)
(* Build.  Rust integer arithmetic written with +, - and += panics on      *)
(* overflow when the crate is built with overflow checks (the dev and test *)
(* profiles) and wraps when it is built without them (the release          *)
(* profile).  overflow_checks is the build; both builds are explored.      *)
(***************************************************************************)
EXTENDS Naturals, Integers, Sequences, FiniteSets, TLC

VARIABLES
    overflow_checks, \* the build: TRUE = overflow checks on (dev/test profile)
    arg_name,        \* hash call: the name / str argument
    arg_ext,         \* hash call: the ext argument
    ret,             \* hash call: [fn, done, panic, val]
    pc,              \* v104: the read the decoder performs next
    header,          \* v104: let header
    folders,         \* v104: let mut folders (u64 -> BSAFolder)
    files,           \* v104: let mut files   (u64 -> BSAFile)
    i,               \* v104: folders named so far (second loop counter)
    j,               \* v104: file records still to read in the current folder
    recs,            \* history: the folder records read, in table order
    names,           \* history: the folder names decoded, in table order
    nfiles,          \* history: number of file records read
    distinct,        \* history: no two file records read carried the same name_hash
    last_len,        \* history: the last length byte read by read_bzstring, -1 before
    nnames,          \* history: number of nul-terminated filenames read
    reads,           \* history: number of read calls issued on the decode stream
    result           \* what the caller of v104 observes

vars == <<overflow_checks, arg_name, arg_ext, ret, pc, header, folders, files,
          i, j, recs, names, nfiles, distinct, last_len, nnames, reads, result>>

hashVars == <<arg_name, arg_ext, ret>>
decVars  == <<pc, header, folders, files, i, j, recs, names, nfiles, distinct, last_len,
              nnames, reads, result>>

----------------------------------------------------------------------------
(* Bounds *)

MaxStrLen == 5        \* longest str_hash argument
MaxHashNameLen == 7   \* longest tes4_hash name argument
MaxFolders == 2       \* largest header.folder_count
MaxFolderFiles == 1   \* largest count of a folder record
MaxFileCount == 2     \* largest header.file_count
MaxFilenameLen == 1   \* longest nul-terminated filename

----------------------------------------------------------------------------
(* Fixed-width arithmetic on little-endian byte sequences *)

RECURSIVE Norm(_, _)
\* carry propagation: raw[k] are column sums; the result keeps Len(raw) bytes
Norm(raw, carry) ==
    IF raw = <<>> THEN <<>>
    ELSE LET t == Head(raw) + carry
         IN  <<t % 256>> \o Norm(Tail(raw), t \div 256)

RECURSIVE CarryOut(_, _)
\* the carry out of the top byte of the same propagation
CarryOut(raw, carry) ==
    IF raw = <<>> THEN carry
    ELSE CarryOut(Tail(raw), (Head(raw) + carry) \div 256)

RECURSIVE SumTo(_, _)
SumTo(f, n) == IF n = 0 THEN 0 ELSE f[n] + SumTo(f, n - 1)

Zero32 == <<0, 0, 0, 0>>
Zero64 == <<0, 0, 0, 0, 0, 0, 0, 0>>

\* u32::wrapping_mul
wrapping_mul(x, k) ==
    Norm([c \in 1..4 |-> SumTo([d \in 1..c |-> x[d] * k[c - d + 1]], c)], 0)

\* u32 + u8 widened to u32 (char as u32)
AddByteRaw(x, b) == <<x[1] + b, x[2], x[3], x[4]>>

\* the multiplier 0x1003F as a u32
HashMultiplier == <<63, 0, 1, 0>>

RECURSIVE BitAnd(_, _)
BitAnd(x, y) ==
    IF x = 0 \/ y = 0 THEN 0
    ELSE (x % 2) * (y % 2) + 2 * BitAnd(x \div 2, y \div 2)

RECURSIVE Pow2(_)
Pow2(n) == IF n = 0 THEN 1 ELSE 2 * Pow2(n - 1)

\* u8 << n for n < 8: the bits shifted out are dropped, no overflow check
Shl8(x, n) == (x * Pow2(n)) % 256

Panic == [panic |-> TRUE, val |-> <<>>]
Ok(v) == [panic |-> FALSE, val |-> v]

----------------------------------------------------------------------------
(* str_hash *)

RECURSIVE StrHashFrom(_, _, _)
\* the loop of str_hash from accumulator hash over the remaining bytes s
StrHashFrom(hash, s, checks) ==
    IF s = <<>> THEN Ok(hash)
    ELSE LET m   == wrapping_mul(hash, HashMultiplier)
             raw == AddByteRaw(m, Head(s))
         IN  IF checks /\ CarryOut(raw, 0) # 0
             THEN Panic                           \* hash += char as u32
             ELSE StrHashFrom(Norm(raw, 0), Tail(s), checks)

str_hash(s, checks) == StrHashFrom(Zero32, s, checks)

----------------------------------------------------------------------------
(* tes4_hash *)

\* str::is_char_boundary(index), index counted from 0
is_char_boundary(s, index) ==
    IF index = 0 \/ index = Len(s) THEN TRUE
    ELSE IF index > Len(s) THEN FALSE
    ELSE ~(s[index + 1] >= 128 /\ s[index + 1] <= 191)

\* &s[begin..end], begin <= end <= Len(s), indices counted from 0
Slice(s, begin, end) == SubSeq(s, begin + 1, end)

\* x + y on u8
AddU8(x, y, checks) ==
    IF x + y > 255 /\ checks THEN Panic ELSE Ok((x + y) % 256)

\* x += y * 0x100000000 on u64, y a u32
AddHigh(hash, y, checks) ==
    LET raw == [k \in 1..4 |-> hash[k + 4] + y[k]]
    IN  IF checks /\ CarryOut(raw, 0) # 0 THEN Panic
        ELSE Ok(SubSeq(hash, 1, 4) \o Norm(raw, 0))

ExtNif == <<110, 105, 102>>
ExtKf  == <<107, 102>>
ExtDds == <<100, 100, 115>>
ExtWav == <<119, 97, 118>>

\* match &ext[1..] { "nif" => 1, "kf" => 2, "dds" => 3, "wav" => 4, _ => 0 }
ExtIndex(rest) ==
    IF rest = ExtNif THEN 1
    ELSE IF rest = ExtKf THEN 2
    ELSE IF rest = ExtDds THEN 3
    ELSE IF rest = ExtWav THEN 4
    ELSE 0

\* the block under `if !name.is_empty()`
Tes4Name(name, checks) ==
    LET n == Len(name) IN
    IF n = 0 THEN Ok(Zero64)
    ELSE IF n < 2 /\ checks THEN Panic            \* name.len() - 2
    ELSE
      LET hash_bytes == << name[n],
                           IF n >= 2 THEN name[n - 1] ELSE 0,
                           n % 256,
                           name[1] >>
      IN  IF n > 3
          THEN IF ~(is_char_boundary(name, 1) /\ is_char_boundary(name, n - 2))
               THEN Panic                         \* &name[1..name.len()-2]
               ELSE LET m == str_hash(Slice(name, 1, n - 2), checks)
                    IN  IF m.panic THEN Panic
                        ELSE Ok(hash_bytes \o m.val)
          ELSE Ok(hash_bytes \o Zero32)

\* the block under `if i != 0`
Tes4Scramble(hash, idx, checks) ==
    LET a == AddU8(Shl8(BitAnd(idx, 252), 5), hash[4], checks)
        b == AddU8(Shl8(BitAnd(idx, 254), 6), hash[1], checks)
        c == AddU8(Shl8(idx, 7), hash[2], checks)
    IN  IF a.panic \/ b.panic \/ c.panic THEN Panic
        ELSE Ok(<<b.val, c.val, hash[3], a.val>> \o SubSeq(hash, 5, 8))

\* the block under `if !ext.is_empty()`
Tes4Ext(hash, ext, checks) ==
    IF ext = <<>> THEN Ok(hash)
    ELSE
      LET e == str_hash(ext, checks) IN
      IF e.panic THEN Panic
      ELSE LET sum == AddHigh(hash, e.val, checks) IN
           IF sum.panic THEN Panic
           ELSE IF ~is_char_boundary(ext, 1) THEN Panic   \* &ext[1..]
           ELSE LET idx == ExtIndex(Slice(ext, 1, Len(ext)))
                IN  IF idx # 0 THEN Tes4Scramble(sum.val, idx, checks)
                    ELSE sum

tes4_hash(name, ext, checks) ==
    LET h == Tes4Name(name, checks)
    IN  IF h.panic THEN Panic ELSE Tes4Ext(h.val, ext, checks)

----------------------------------------------------------------------------
(* Inputs of the hash calls *)

\* bytes of the str_hash arguments: ) 0 1 p
StrAlphabet == {41, 48, 49, 112}

\* bytes of the tes4_hash names: a, z and the two bytes of U+00E9
NameAlphabet == {97, 122, 195, 169}

\* the ext arguments: "", .nif, .kf, .dds, .wav, .txt, xnif, and U+00E9 "dds"
Exts == { <<>>, <<46>> \o ExtNif, <<46>> \o ExtKf, <<46>> \o ExtDds,
          <<46>> \o ExtWav, <<46, 116, 120, 116>>, <<120>> \o ExtNif,
          <<195, 169>> \o ExtDds }

RECURSIVE SeqsUpTo(_, _)
\* all sequences over S of length at most n
SeqsUpTo(S, n) ==
    IF n = 0 THEN { <<>> }
    ELSE LET shorter == SeqsUpTo(S, n - 1)
         IN  shorter \cup { <<x>> \o s : x \in S, s \in { t \in shorter : Len(t) = n - 1 } }

RECURSIVE IsUtf8(_)
\* validity of a byte sequence as a &str, for bytes below 0xE0
IsUtf8(s) ==
    IF s = <<>> THEN TRUE
    ELSE IF s[1] < 128 THEN IsUtf8(Tail(s))
    ELSE IF s[1] >= 194 /\ s[1] <= 223
         THEN Len(s) >= 2 /\ s[2] >= 128 /\ s[2] <= 191 /\ IsUtf8(Tail(Tail(s)))
    ELSE FALSE

\* the hash call record before and after the call
NoCall == [fn |-> "none", done |-> FALSE, panic |-> FALSE, val |-> <<>>]

Returned(fn, r) == [fn |-> fn, done |-> TRUE, panic |-> r.panic, val |-> r.val]

StrInputs  == SeqsUpTo(StrAlphabet, MaxStrLen)
NameInputs == { s \in SeqsUpTo(NameAlphabet, MaxHashNameLen) : IsUtf8(s) }

----------------------------------------------------------------------------
(* BSAHashMap: a map is a function from its keys (u64) to its values *)

EmptyMap == <<>>

\* BSAHashMap::insert: HashMap::insert replaces the value of a present key
insert(m, k, v) ==
    [x \in (DOMAIN m) \cup {k} |-> IF x = k THEN v ELSE m[x]]

\* BSAHashMap::get(&str): None is found = FALSE
get(m, k, checks) ==
    LET h == tes4_hash(k, <<>>, checks)
    IN  IF h.panic THEN [panic |-> TRUE, found |-> FALSE, key |-> <<>>]
        ELSE [panic |-> FALSE, found |-> h.val \in DOMAIN m, key |-> h.val]

----------------------------------------------------------------------------
(* What the caller of v104 observes *)

NoResult == [kind |-> "none", error |-> "none", at |-> "none", archive |-> <<>>]

\* Err(e) out of v104, raised by the ? of the read in phase at
Failed(e, at) == [kind |-> "err", error |-> e, at |-> at, archive |-> <<>>]

\* a panic unwinding out of v104
Panicked(at) == [kind |-> "panic", error |-> "none", at |-> at, archive |-> <<>>]

\* the process dies of undefined behaviour
Crashed(at) == [kind |-> "crash", error |-> "none", at |-> at, archive |-> <<>>]

\* Ok(BSAArchive { reader, header, folders, files })
Returned104(h, fo, fi) ==
    [kind |-> "ok", error |-> "none", at |-> "none",
     archive |-> << [header |-> h, folders |-> fo, files |-> fi] >>]

----------------------------------------------------------------------------
(* Inputs of the decoder *)

\* the fields of BSAHeader that v104 uses, and its version field
Version104 == 104
Versions == {103, Version104}
FlagValues == 0..3
Headers == [version : Versions, archive_flags : FlagValues,
            folder_count : 0..MaxFolders, file_count : 0..MaxFileCount]

\* the true (wrapping) hash of a path
PathHash(name, ext) == tes4_hash(name, ext, FALSE).val

\* folder names whose hashes the folder records carry: "ab", "bb"
FolderNames == { <<97, 98>>, <<98, 98>> }
FolderHashes == { PathHash(n, <<>>) : n \in FolderNames }
FolderRecords == [name_hash : FolderHashes, count : 0..MaxFolderFiles, offset : {0}]

\* file paths whose hashes the file records carry: x.nif, x.dds
FileHashes == { PathHash(<<120>>, e) : e \in { <<46>> \o ExtNif, <<46>> \o ExtDds } }
FileRecords == [name_hash : FileHashes, size : {16}, offset : {0}]

\* contents of the folder name table: "", "a", "ab", "bb", a lone continuation byte
NameContents == { <<>>, <<97>>, <<97, 98>>, <<98, 98>>, <<169>> }
\* the byte that ends a length-prefixed string: nul, or anything else
Terminators == {0, 33}
\* the bytes the length byte announces: none (length 0), or content and terminator
NameBlocks == { <<>> } \cup { c \o <<t>> : c \in NameContents, t \in Terminators }
\* nul-terminated filenames, without the terminator
Filenames == SeqsUpTo({120}, MaxFilenameLen)

\* CStr::to_str: the bytes are valid UTF-8
to_str_ok(s) == IsUtf8(s)

\* a slip of the flag test: bit 0x1 instead of bit 0x2
HasFilenameList_bit0(h) == BitAnd(h.archive_flags, 1) # 0

\* header.archive_flags & 0x2 != 0
HasFilenameList(h) == BitAnd(h.archive_flags, 2) # 0

----------------------------------------------------------------------------
(* BSAParser::v104, one action per read.  The println! calls and the         *)
(* push/pop of the parser's depth marker change nothing of the decode and   *)
(* are left out.                                                            *)

\* where the decoder stands once the folder blocks are read
PcAfterBlocks(h) ==
    IF HasFilenameList(h) /\ h.file_count > 0 THEN "filename" ELSE "reopen"

\* where it stands once the blocks of folder number k (of the second loop) are read
PcAfterFolder(h, k) ==
    IF k < h.folder_count THEN "folder_name" ELSE PcAfterBlocks(h)

Fail(e, at, nreads) ==
    /\ pc' = "done"
    /\ result' = Failed(e, at)
    /\ reads' = reads + nreads

DecInit ==
    /\ pc = "header"
    /\ header = [version |-> 0, archive_flags |-> 0, folder_count |-> 0, file_count |-> 0]
    /\ folders = EmptyMap
    /\ files = EmptyMap
    /\ i = 0
    /\ j = 0
    /\ recs = <<>>
    /\ names = <<>>
    /\ nfiles = 0
    /\ distinct = TRUE
    /\ last_len = -1
    /\ nnames = 0
    /\ reads = 0
    /\ result = NoResult

Init ==
    /\ overflow_checks \in BOOLEAN
    /\ arg_name = <<>>
    /\ arg_ext = <<>>
    /\ ret = NoCall
    /\ DecInit

\* let header: BSAHeader = self.read()?;
ReadHeader ==
    /\ pc = "header"
    /\ \/ /\ Fail("IoError", "header", 1)
          /\ UNCHANGED <<header>>
       \/ \E h \in Headers :
            /\ header' = h
            /\ reads' = reads + 1
            /\ pc' = IF h.folder_count > 0 THEN "folder_record" ELSE PcAfterBlocks(h)
            /\ UNCHANGED result
    /\ UNCHANGED <<folders, files, i, j, recs, names, nfiles, distinct, last_len, nnames>>
    /\ UNCHANGED <<overflow_checks, hashVars>>

\* one iteration of the first loop over 0..header.folder_count
ReadFolderRecord ==
    /\ pc = "folder_record"
    /\ \/ /\ Fail("IoError", "folder_record", 1)
          /\ UNCHANGED <<folders, recs>>
       \/ \E folder \in FolderRecords :
            /\ folders' = insert(folders, folder.name_hash,
                                 [count |-> folder.count, offset |-> folder.offset])
            /\ recs' = Append(recs, folder)
            /\ reads' = reads + 1
            /\ pc' = IF Len(recs) + 1 < header.folder_count
                     THEN "folder_record" ELSE "folder_name"
            /\ UNCHANGED result
    /\ UNCHANGED <<header, files, i, j, names, nfiles, distinct, last_len, nnames>>
    /\ UNCHANGED <<overflow_checks, hashVars>>

\* the rest of an iteration of the second loop once read_bzstring returned name:
\* the lookup, its unwrap, and the entry into the loop over 0..folder.count
EnterFolder(name) ==
    /\ names' = Append(names, name)
    /\ i' = i + 1
    /\ IF ~to_str_ok(name)
       THEN /\ pc' = "done"                         \* name.to_str().unwrap()
            /\ result' = Panicked("folder_name")
            /\ UNCHANGED j
       ELSE LET r == get(folders, name, overflow_checks) IN
            IF r.panic \/ ~r.found
            THEN /\ pc' = "done"                    \* tes4_hash, or get(..).unwrap()
                 /\ result' = Panicked("folder_name")
                 /\ UNCHANGED j
            ELSE /\ j' = folders[r.key].count
                 /\ pc' = IF folders[r.key].count > 0 THEN "file_record"
                          ELSE PcAfterFolder(header, i + 1)
                 /\ UNCHANGED result

\* let name = self.read_bzstring()?; and the folder lookup that follows it
ReadFolderName ==
    /\ pc = "folder_name"
    /\ \/ /\ Fail("IoError", "folder_name", 1)      \* self.read::<u8>()?
          /\ UNCHANGED <<i, j, names, last_len>>
       \/ \E block \in NameBlocks :
            /\ last_len' = Len(block)
            /\ IF Len(block) = 0
               THEN \* v.set_len(length - 1) with length = 0
                    IF overflow_checks
                    THEN /\ pc' = "done"
                         /\ result' = Panicked("read_bzstring")
                         /\ reads' = reads + 2
                         /\ UNCHANGED <<i, j, names>>
                    ELSE \* set_len(usize::MAX): undefined behaviour
                         \/ /\ pc' = "done"
                            /\ result' = Crashed("read_bzstring")
                            /\ reads' = reads + 2
                            /\ UNCHANGED <<i, j, names>>
                         \/ \E garbage \in NameContents :
                              /\ reads' = reads + 2
                              /\ EnterFolder(garbage)
               ELSE \/ /\ Fail("IoError", "folder_name", 2)   \* read_exact(..)?
                       /\ UNCHANGED <<i, j, names>>
                    \/ /\ reads' = reads + 2
                       /\ EnterFolder(SubSeq(block, 1, Len(block) - 1))
    /\ UNCHANGED <<header, folders, files, recs, nfiles, distinct, nnames>>
    /\ UNCHANGED <<overflow_checks, hashVars>>

\* one iteration of the loop over 0..folder.count
ReadFileRecord ==
    /\ pc = "file_record"
    /\ \/ /\ Fail("IoError", "file_record", 1)
          /\ UNCHANGED <<files, j, nfiles, distinct>>
       \/ \E file \in FileRecords :
            /\ files' = insert(files, file.name_hash,
                               [size |-> file.size, offset |-> file.offset])
            /\ nfiles' = nfiles + 1
            /\ distinct' = (distinct /\ file.name_hash \notin DOMAIN files)
            /\ j' = j - 1
            /\ reads' = reads + 1
            /\ pc' = IF j - 1 > 0 THEN "file_record" ELSE PcAfterFolder(header, i)
            /\ UNCHANGED result
    /\ UNCHANGED <<header, folders, i, recs, names, last_len, nnames>>
    /\ UNCHANGED <<overflow_checks, hashVars>>

\* one iteration of the loop over 0..header.file_count: read_nul_string
ReadFilename ==
    /\ pc = "filename"
    /\ \/ \E k \in 1..(MaxFilenameLen + 1) :        \* the k-th self.read()? fails
            /\ Fail("IoError", "filename", k)
            /\ UNCHANGED nnames
       \/ \E filename \in Filenames :
            /\ nnames' = nnames + 1
            /\ reads' = reads + Len(filename) + 1
            /\ pc' = IF nnames + 1 < header.file_count THEN "filename" ELSE "reopen"
            /\ UNCHANGED result
    /\ UNCHANGED <<header, folders, files, i, j, recs, names, nfiles, distinct, last_len>>
    /\ UNCHANGED <<overflow_checks, hashVars>>

\* File::open(self.path())? and the Ok(BSAArchive { .. }) that ends v104
Reopen ==
    /\ pc = "reopen"
    /\ pc' = "done"
    /\ \/ result' = Failed("IoError", "reopen")
       \/ result' = Returned104(header, folders, files)
    /\ UNCHANGED <<header, folders, files, i, j, recs, names, nfiles, distinct, last_len,
                   nnames, reads>>
    /\ UNCHANGED <<overflow_checks, hashVars>>

Next ==
    \/ ReadHeader
    \/ ReadFolderRecord
    \/ ReadFolderName
    \/ ReadFileRecord
    \/ ReadFilename
    \/ Reopen

Spec == Init /\ [][Next]_vars

----------------------------------------------------------------------------
(* The hash functions called on their own *)

\* the decoder before v104 is called
DecIdle ==
    /\ pc = "idle"
    /\ header = [version |-> 0, archive_flags |-> 0, folder_count |-> 0, file_count |-> 0]
    /\ folders = <<>>
    /\ files = <<>>
    /\ i = 0
    /\ j = 0
    /\ recs = <<>>
    /\ names = <<>>
    /\ nfiles = 0
    /\ distinct = TRUE
    /\ last_len = -1
    /\ nnames = 0
    /\ reads = 0
    /\ result = NoResult

InitStrHash ==
    /\ overflow_checks \in BOOLEAN
    /\ arg_name \in StrInputs
    /\ arg_ext = <<>>
    /\ ret = NoCall
    /\ DecIdle

CallStrHash ==
    /\ ~ret.done
    /\ ret' = Returned("str_hash", str_hash(arg_name, overflow_checks))
    /\ UNCHANGED <<overflow_checks, arg_name, arg_ext>>
    /\ UNCHANGED decVars

NextStrHash == CallStrHash

SpecStrHash == InitStrHash /\ [][NextStrHash]_vars

InitTes4Hash ==
    /\ overflow_checks \in BOOLEAN
    /\ arg_name \in NameInputs
    /\ arg_ext \in Exts
    /\ ret = NoCall
    /\ DecIdle

CallTes4Hash ==
    /\ ~ret.done
    /\ ret' = Returned("tes4_hash", tes4_hash(arg_name, arg_ext, overflow_checks))
    /\ UNCHANGED <<overflow_checks, arg_name, arg_ext>>
    /\ UNCHANGED decVars

NextTes4Hash == CallTes4Hash

SpecTes4Hash == InitTes4Hash /\ [][NextTes4Hash]_vars

----------------------------------------------------------------------------
(* Reference arithmetic for the properties: a u32 as two 16-bit halves *)

\* (acc * 0x1003F + b) mod 2^32, with acc = hi * 2^16 + lo and 0x1003F = 2^16 + 63
FoldStep(acc, b) ==
    LET t == acc.lo * 63 + b
    IN  [lo |-> t % 65536,
         hi |-> (acc.hi * 63 + acc.lo + t \div 65536) % 65536]

RECURSIVE Fold(_, _)
Fold(acc, s) == IF s = <<>> THEN acc ELSE Fold(FoldStep(acc, Head(s)), Tail(s))

\* the little-endian bytes of a u32 given by its halves
HalvesToBytes(x) == << x.lo % 256, x.lo \div 256, x.hi % 256, x.hi \div 256 >>

\* rolling_hash of the specification
RollingHash(s) == HalvesToBytes(Fold([lo |-> 0, hi |-> 0], s))

\* (x + y) mod 2^32 on little-endian bytes
AddMod32(x, y) ==
    LET lo == (x[1] + 256 * x[2]) + (y[1] + 256 * y[2])
        hi == (x[3] + 256 * x[4]) + (y[3] + 256 * y[4]) + lo \div 65536
    IN  HalvesToBytes([lo |-> lo % 65536, hi |-> hi % 65536])

\* steps 1 and 2 of path_hash: the seed word and the hash of the middle
NameSteps(name) ==
    LET n == Len(name) IN
    IF n = 0 THEN Zero64
    ELSE << name[n], IF n >= 2 THEN name[n - 1] ELSE 0, n % 256, name[1] >>
         \o (IF n > 3 THEN RollingHash(SubSeq(name, 2, n - 2)) ELSE Zero32)

\* step 3 of path_hash, first half: the additive hash
Additive(name, ext) ==
    LET h == NameSteps(name)
    IN  SubSeq(h, 1, 4) \o AddMod32(SubSeq(h, 5, 8), RollingHash(ext))

DotExts == { <<46>> \o ExtNif, <<46>> \o ExtKf, <<46>> \o ExtDds, <<46>> \o ExtWav }

DotIndex(ext) ==
    IF ext = <<46>> \o ExtNif THEN 1
    ELSE IF ext = <<46>> \o ExtKf THEN 2
    ELSE IF ext = <<46>> \o ExtDds THEN 3
    ELSE 4

\* step 3 of path_hash, second half: bytes 3, 0 and 1 rewritten for index idx
Scrambled(h, idx) ==
    << ((BitAnd(idx, 254) * 64) + h[1]) % 256,
       ((idx * 128) + h[2]) % 256,
       h[3],
       ((BitAnd(idx, 252) * 32) + h[4]) % 256 >> \o SubSeq(h, 5, 8)

RECURSIVE SumCounts(_)
\* the sum of the counts the folder records declare
SumCounts(rs) == IF rs = <<>> THEN 0 ELSE Head(rs).count + SumCounts(Tail(rs))

\* bit 0x2 of the decoded header's archive_flags
FilenameBit == (header.archive_flags \div 2) % 2 = 1

\* the reads of the header, the folder records, the folder names and the file records
BlockReads == 1 + Len(recs) + 2 * Len(names) + nfiles

\* the header record was decoded
HeaderDecoded == reads >= 1 /\ ~(result.kind = "err" /\ result.at = "header")

----------------------------------------------------------------------------
(* Properties *)

\* C1: a decode ends with a fully populated archive or with a single error
\* value; a read that fails ends the decode at once and the caller sees the
\* error and no archive.
C1_ArchiveOrError ==
    /\ pc = "done" => result.kind \in {"ok", "err"}
    /\ result.kind = "err" => pc = "done" /\ result.archive = <<>>
    /\ result.kind = "ok" =>
         result.archive = << [header |-> header, folders |-> folders, files |-> files] >>

\* C2: while the decode goes on, the k-th decoded folder name hashes to the
\* name_hash of the k-th folder record; a decode in which they differ produces
\* no archive.
C2_NamesMatchRecordsByPosition ==
    result.kind \in {"none", "ok"} =>
        \A k \in 1..Len(names) : PathHash(names[k], <<>>) = recs[k].name_hash

\* C3: a decoded folder name whose hash is no key of the folder map makes the
\* decode return a FormatError.
C3_UnknownFolderIsFormatError ==
    ( /\ names # <<>>
      /\ to_str_ok(names[Len(names)])
      /\ PathHash(names[Len(names)], <<>>) \notin DOMAIN folders )
    => (result.kind = "err" /\ result.error = "FormatError")

\* C4: a length byte of 0 makes read_bzstring return a FormatError; no string
\* is returned.
C4_ZeroLengthIsFormatError ==
    last_len = 0 =>
        /\ result.kind = "err"
        /\ result.error = "FormatError"

\* C5: a header whose version is not 104 is rejected with
\* UnsupportedVersionError before anything else is read.
C5_OtherVersionRejected ==
    (HeaderDecoded /\ header.version # Version104) =>
        /\ result.kind = "err"
        /\ result.error = "UnsupportedVersionError"
        /\ reads = 1
        /\ recs = <<>> /\ names = <<>> /\ nfiles = 0 /\ nnames = 0

\* the folder records, the folder names and every file-record block have been
\* read and nothing has panicked: the decoder is past the last file-record block
AfterBlocks ==
    /\ HeaderDecoded
    /\ Len(recs) = header.folder_count
    /\ Len(names) = header.folder_count
    /\ j = 0
    /\ result.kind \in {"none", "ok", "err"}

\* the filename phase is over: the decoder is at, or past, the reopening
PastFilenames == pc = "reopen" \/ result.kind = "ok" \/ result.at = "reopen"

\* C6 as stated: after the last file-record block the filename list is read iff
\* bit 0x2 of archive_flags is set; with the bit set exactly file_count strings
\* are read, with the bit clear nothing more is read from the stream and the
\* decode finishes successfully.
C6_FinishesSuccessfully ==
    /\ pc = "filename" => (FilenameBit /\ nnames < header.file_count)
    /\ nnames > 0 => FilenameBit
    /\ (AfterBlocks /\ PastFilenames) =>
          /\ nnames = (IF FilenameBit THEN header.file_count ELSE 0)
          /\ reads >= BlockReads + nnames
    /\ (AfterBlocks /\ ~FilenameBit) =>
          /\ reads = BlockReads
          /\ pc \in {"reopen", "done"}
          /\ pc = "done" => result.kind = "ok"

\* C6 amended: after the last file-record block the filename list is read iff
\* bit 0x2 of archive_flags is set; with the bit set exactly file_count strings
\* are read before the reopening, with the bit clear nothing more is read from
\* the stream and only the reopening of the file is left: the decode returns
\* the archive, or the IoError of that reopening.
C6_FilenameListIffFlag ==
    /\ pc = "filename" => (FilenameBit /\ nnames < header.file_count)
    /\ nnames > 0 => FilenameBit
    /\ (AfterBlocks /\ PastFilenames) =>
          /\ nnames = (IF FilenameBit THEN header.file_count ELSE 0)
          /\ reads >= BlockReads + nnames
    /\ (AfterBlocks /\ ~FilenameBit) =>
          /\ reads = BlockReads
          /\ pc \in {"reopen", "done"}
          /\ pc = "done" =>
                \/ result = Returned104(header, folders, files)
                \/ result = Failed("IoError", "reopen")

\* C6 witness: bit 0x2 clear (bit 0x1 set), file_count > 0, file records read,
\* and the decode has returned the archive.
C6_Witness ==
    /\ result.kind = "ok"
    /\ header.archive_flags = 1
    /\ header.file_count > 0
    /\ nfiles > 0
    /\ nnames = 0

\* C7: on success the number of file records read is the sum of the counts the
\* folder records declare, and so is the size of the file map when no two file
\* records share a hash.
C7_FileRecordsMatchDeclaredCounts ==
    result.kind = "ok" =>
        /\ nfiles = SumCounts(recs)
        /\ distinct => Cardinality(DOMAIN files) = SumCounts(recs)

\* C8: with an empty extension tes4_hash returns, for every name, the seed word
\* in the low 32 bits and the rolling hash of the middle (or 0) in the high 32
\* bits; it returns 0 for the empty name and never fails.
C8_NameOnlyHash ==
    (ret.done /\ ret.fn = "tes4_hash" /\ arg_ext = <<>>) =>
        /\ ~ret.panic
        /\ ret.val = NameSteps(arg_name)

\* C9: with a non-empty extension tes4_hash returns the additive hash, with
\* bytes 3, 0 and 1 rewritten (modulo 256) for .nif, .kf, .dds and .wav and
\* unchanged for any other extension; it never fails.
C9_ExtensionHash ==
    (ret.done /\ ret.fn = "tes4_hash" /\ arg_ext # <<>>) =>
        /\ ~ret.panic
        /\ ret.val = (IF arg_ext \in DotExts
                      THEN Scrambled(Additive(arg_name, arg_ext), DotIndex(arg_ext))
                      ELSE Additive(arg_name, arg_ext))

\* C10: str_hash returns, for every string, the fold acc := (acc * 0x1003F + b)
\* mod 2^32 over its bytes from 0; it never fails.
C10_StrHashIsWrappingFold ==
    (ret.done /\ ret.fn = "str_hash") =>
        /\ ~ret.panic
        /\ ret.val = RollingHash(arg_name)

====
